---- MODULE Spec2Model ----
(***************************************************************************)
(* Model of the MCP23S17 driver class of RPiMCP23S17/MCP23S17.py.          *)
(*                                                                         *)
(* One instance of the class, the spidev transport object it owns, the     *)
(* chip-select line and the chip's registers.  Every public method is one  *)
(* action; a method is computed by operators that thread a "world" record  *)
(* through the statements of the method in source order.  A Python         *)
(* exception is the field fault of the world: once it is set every later   *)
(* statement of the call is skipped, as the exception unwinds the call.    *)
(***************************************************************************)
EXTENDS Integers, Sequences, FiniteSets, TLC

\* ---------------------------------------------------------------- constants
PULLUP_ENABLED == 0
PULLUP_DISABLED == 1
DIR_INPUT == 0
DIR_OUTPUT == 1
LEVEL_LOW == 0
LEVEL_HIGH == 1

MCP23S17_IODIRA == 0
MCP23S17_IODIRB == 1
MCP23S17_GPIOA == 18
MCP23S17_GPIOB == 19
MCP23S17_IOCON == 10
MCP23S17_GPPUA == 12
MCP23S17_GPPUB == 13
IOCON_INIT == 40
MCP23S17_CMD_WRITE == 64
MCP23S17_CMD_READ == 65

\* The value of self._spimode, set once by the constructor.
SPIMODE == 0

\* ---------------------------------------------------------------- bounds
\* Public calls explored per behaviour.
MaxOps == 2
\* The k-th bus transfer of a call may fail, for k in 1..MaxFail.
MaxFail == 2

\* ---------------------------------------------------------------- inputs
\* Pin arguments: the pins at the bank boundary, a pin inside bank B, the
\* last pin, and one index on each side out of range.
Pins == {-1, 7, 8, 10, 15, 16}
\* Mode / direction / level arguments: the two enumerators and a stray value.
Enums == {0, 1, 2}
\* Words given to writeGPIO: 16-bit words and one that is wider.
Words == {33989, 65535, 66000}
\* A read answers with the byte last written to the register (Mirror) or
\* with a level driven from outside.
Mirror == 0 - 1
ReadVals == {Mirror, 165}
\* Constructor arguments <<deviceID, pin_reset>>: the defaults, and a chip at
\* hardware address 1 with a reset line.
Ctors == {<<0, -1>>, <<1, 22>>}
\* The hardware addresses the three address pins of the chip can select.
Addresses == 0..7
\* The threads that call into one instance, and the pins each of them writes:
\* pins of both banks for the first, pins of bank B for the second.
Threads == {1, 2}
ThreadPins(t) == IF t = 1 THEN {7, 8} ELSE {10, 15}
\* Clock modes the transport may report after it is opened.
SpiModes == {0, 3}
\* "No value yet" in the per-register histories.
None == 0 - 2

Regs == {MCP23S17_IODIRA, MCP23S17_IODIRB, MCP23S17_IOCON, MCP23S17_GPPUA,
         MCP23S17_GPPUB, MCP23S17_GPIOA, MCP23S17_GPIOB}

\* ---------------------------------------------------------------- integers
\* Python's unbounded integers, for the non-negative operands the driver uses.
RECURSIVE Pow2(_)
Pow2(n) == IF n <= 0 THEN 1 ELSE 2 * Pow2(n - 1)

\* a | b
RECURSIVE BitOr(_, _)
BitOr(a, b) ==
    IF a = 0 THEN b
    ELSE IF b = 0 THEN a
    ELSE (IF a % 2 = 1 \/ b % 2 = 1 THEN 1 ELSE 0) + 2 * BitOr(a \div 2, b \div 2)

\* a & b
RECURSIVE BitAnd(_, _)
BitAnd(a, b) ==
    IF a = 0 \/ b = 0 THEN 0
    ELSE (IF a % 2 = 1 /\ b % 2 = 1 THEN 1 ELSE 0) + 2 * BitAnd(a \div 2, b \div 2)

\* a & (~b): ~b is negative in Python, an infinite run of leading one bits.
RECURSIVE BitAndNot(_, _)
BitAndNot(a, b) ==
    IF a = 0 THEN 0
    ELSE (IF a % 2 = 1 /\ b % 2 = 0 THEN 1 ELSE 0) + 2 * BitAndNot(a \div 2, b \div 2)

\* a >> n
ShiftRight(a, n) == a \div Pow2(n)

\* ---------------------------------------------------------------- state
VARIABLES
    deviceID,       \* self.deviceID
    pin_reset,      \* self._pin_reset (-1: no reset line)
    isInitialized,  \* self.isInitialized
    GPIOA, GPIOB,   \* self._GPIOA, self._GPIOB     (port shadows)
    IODIRA, IODIRB, \* self._IODIRA, self._IODIRB   (direction shadows)
    GPPUA, GPPUB,   \* self._GPPUA, self._GPPUB     (pull-up shadows)
    attrs,          \* instance attributes the methods read but __init__ never assigns
    spi,            \* the SpiDev object: [open, mode]
    cs,             \* level of the chip-select line: "high" or "low"
    resetLine,      \* the reset line: "unset" or "high"
    lastW,          \* per register: the byte of the last completed write frame
    lastRW,         \* per register: the byte last written to or read from it
    call,           \* the record of the last public call and its outcome
    nops,           \* public calls made so far
    thr,            \* per calling thread: where its digitalWrite call stands
    overlap,        \* a call has begun while another thread's was in progress
    commanded       \* per bank: the levels the completed write calls asked for

vars == <<deviceID, pin_reset, isInitialized, GPIOA, GPIOB, IODIRA, IODIRB,
          GPPUA, GPPUB, attrs, spi, cs, resetLine, lastW, lastRW, call, nops,
          thr, overlap, commanded>>

\* The names __init__ never assigns although open() and the register
\* primitives read them.
Unassigned == {"bus", "ce", "_PIN_MCP_CS"}

\* The shadows as a record, for the snapshot kept in call.pre.
Shadow == [GPIOA |-> GPIOA, GPIOB |-> GPIOB, IODIRA |-> IODIRA,
           IODIRB |-> IODIRB, GPPUA |-> GPPUA, GPPUB |-> GPPUB]

\* ---------------------------------------------------------------- world
\* The state a call works on.  failAt: which bus transfer of the call the
\* transport fails (0: none); resp: the answers of the transport to the
\* reads of the call, in order; nx: bus transfers attempted by the call;
\* frames: the transfers that completed; nr: reads answered; ret: the
\* value returned by the last statement that returns one.
World(failAt, resp) ==
    [isInitialized |-> isInitialized, sh |-> Shadow, deviceID |-> deviceID,
     pin_reset |-> pin_reset, attrs |-> attrs, spi |-> spi, cs |-> cs,
     resetLine |-> resetLine, lastW |-> lastW, lastRW |-> lastRW,
     failAt |-> failAt, resp |-> resp, nx |-> 0, nr |-> 0, frames |-> <<>>,
     fault |-> "none", ret |-> None]

Ok(w) == w.fault = "none"
Raise(w, f) == IF Ok(w) THEN [w EXCEPT !.fault = f] ELSE w

\* self._spi.xfer2(frame): one full-duplex transfer.  spidev refuses a list
\* holding anything but bytes, and a transfer on a closed device or one the
\* transport fails raises.
xfer2(w, frame) ==
    IF ~Ok(w) THEN w
    ELSE IF \E i \in 1..Len(frame) : frame[i] \notin 0..255
    THEN Raise(w, "value")
    ELSE IF ~w.spi.open \/ w.nx + 1 = w.failAt
    THEN [w EXCEPT !.nx = @ + 1, !.fault = "transport"]
    ELSE [w EXCEPT !.nx = @ + 1, !.frames = Append(@, frame)]

\* _setSpiMode without the comparison: the mode set and the dummy byte sent
\* before every access.
setSpiMode_always(w, mode) ==
    IF ~Ok(w) THEN w
    ELSE xfer2([w EXCEPT !.spi.mode = mode], <<0>>)

\* _setSpiMode(mode)
setSpiMode(w, mode) ==
    IF ~Ok(w) THEN w
    ELSE IF w.spi.mode # mode
    THEN xfer2([w EXCEPT !.spi.mode = mode], <<0>>)
    ELSE w

\* GPIO.output(self._PIN_MCP_CS, level)
csOutput(w, level) ==
    IF ~Ok(w) THEN w
    ELSE IF "_PIN_MCP_CS" \notin w.attrs THEN Raise(w, "attribute")
    ELSE [w EXCEPT !.cs = level]

\* assert cond
assert(w, cond) == IF Ok(w) /\ ~cond THEN Raise(w, "assert") ELSE w

\* _writeRegister with the device address or-ed into the command unshifted.
writeRegister_unshifted(w, register, value) ==
    LET w0 == assert(w, w.isInitialized)
        command == BitOr(MCP23S17_CMD_WRITE, w0.deviceID)
        w1 == setSpiMode(w0, SPIMODE)
        w2 == csOutput(w1, "low")
        w3 == xfer2(w2, <<command, register, value>>)
        w4 == IF Ok(w3)
              THEN [w3 EXCEPT !.lastW[register] = value, !.lastRW[register] = value]
              ELSE w3
    IN  csOutput(w4, "high")

\* _writeRegister(register, value)
writeRegister(w, register, value) ==
    LET w0 == assert(w, w.isInitialized)
        command == BitOr(MCP23S17_CMD_WRITE, w0.deviceID * 2)
        w1 == setSpiMode(w0, SPIMODE)
        w2 == csOutput(w1, "low")
        w3 == xfer2(w2, <<command, register, value>>)
        w4 == IF Ok(w3)
              THEN [w3 EXCEPT !.lastW[register] = value, !.lastRW[register] = value]
              ELSE w3
    IN  csOutput(w4, "high")

\* The byte the transport answers the read of register with.
Answer(w, register) ==
    LET r == w.resp[w.nr + 1]
    IN  IF r # Mirror THEN r
        ELSE IF w.lastW[register] = None THEN 0 ELSE w.lastW[register]

\* What xfer2 returns for a read frame: the chip drives nothing while the
\* command and the register address are clocked out, then the register byte.
Response(w, register) == <<0, 0, Answer(w, register)>>

\* _readRegister(register); the byte read, data[2], is left in ret.
readRegister(w, register) ==
    LET w0 == assert(w, w.isInitialized)
        command == BitOr(MCP23S17_CMD_READ, w0.deviceID * 2)
        w1 == setSpiMode(w0, SPIMODE)
        w2 == csOutput(w1, "low")
        w3 == xfer2(w2, <<command, register, 0>>)
        data == Response(w3, register)
        w4 == IF Ok(w3)
              THEN [w3 EXCEPT !.ret = data[3], !.nr = @ + 1,
                              !.lastRW[register] = data[3]]
              ELSE w3
    IN  csOutput(w4, "high")

\* _readRegisterWord with the two bytes combined low:high.
readRegisterWord_swapped(w, register) ==
    LET w1 == readRegister(w, register)
        w2 == readRegister(w1, register + 1)
    IN  IF Ok(w2) THEN [w2 EXCEPT !.ret = BitOr(w1.ret * 256, w2.ret)] ELSE w2

\* _readRegisterWord(register); the word read is left in ret.
readRegisterWord(w, register) ==
    LET w1 == readRegister(w, register)
        w2 == readRegister(w1, register + 1)
    IN  IF Ok(w2) THEN [w2 EXCEPT !.ret = BitOr(w2.ret * 256, w1.ret)] ELSE w2

\* _writeRegisterWord(register, data)
writeRegisterWord(w, register, data) ==
    LET w0 == assert(w, w.isInitialized)
        w1 == writeRegister(w0, register, BitAnd(data, 255))
    IN  writeRegister(w1, register + 1, ShiftRight(data, 8))

\* ---------------------------------------------------------------- methods
\* 1 << noshifts raises ValueError for a negative shift count.
shiftCheck(w, noshifts) == IF noshifts < 0 THEN Raise(w, "value") ELSE w

\* setPullupMode with the write suppressed when the shadow already holds the
\* byte to write.
setPullupMode_cached(w, pin, mode) ==
    LET w0 == assert(assert(assert(w, pin < 16),
                            mode = PULLUP_ENABLED \/ mode = PULLUP_DISABLED),
                     w.isInitialized)
        register == IF pin < 8 THEN MCP23S17_GPPUA ELSE MCP23S17_GPPUB
        old == IF pin < 8 THEN w0.sh.GPPUA ELSE w0.sh.GPPUB
        noshifts == IF pin < 8 THEN pin ELSE BitAnd(pin, 7)
        w1 == shiftCheck(w0, noshifts)
        data == IF mode = PULLUP_ENABLED
                THEN BitOr(old, Pow2(noshifts))
                ELSE BitAndNot(old, Pow2(noshifts))
        w2 == IF data = old THEN w1 ELSE writeRegister(w1, register, data)
    IN  IF ~Ok(w2) THEN w2
        ELSE IF pin < 8 THEN [w2 EXCEPT !.sh.GPPUA = data]
        ELSE [w2 EXCEPT !.sh.GPPUB = data]

\* setPullupMode(pin, mode)
setPullupMode(w, pin, mode) ==
    LET w0 == assert(assert(assert(w, pin < 16),
                            mode = PULLUP_ENABLED \/ mode = PULLUP_DISABLED),
                     w.isInitialized)
        register == IF pin < 8 THEN MCP23S17_GPPUA ELSE MCP23S17_GPPUB
        old == IF pin < 8 THEN w0.sh.GPPUA ELSE w0.sh.GPPUB
        noshifts == IF pin < 8 THEN pin ELSE BitAnd(pin, 7)
        w1 == shiftCheck(w0, noshifts)
        data == IF mode = PULLUP_ENABLED
                THEN BitOr(old, Pow2(noshifts))
                ELSE BitAndNot(old, Pow2(noshifts))
        w2 == writeRegister(w1, register, data)
    IN  IF ~Ok(w2) THEN w2
        ELSE IF pin < 8 THEN [w2 EXCEPT !.sh.GPPUA = data]
        ELSE [w2 EXCEPT !.sh.GPPUB = data]

\* setDirection with the polarity swapped: the bit set for an output.
setDirection_swapped(w, pin, direction) ==
    LET w0 == assert(assert(assert(w, pin < 16),
                            direction = DIR_INPUT \/ direction = DIR_OUTPUT),
                     w.isInitialized)
        register == IF pin < 8 THEN MCP23S17_IODIRA ELSE MCP23S17_IODIRB
        old == IF pin < 8 THEN w0.sh.IODIRA ELSE w0.sh.IODIRB
        noshifts == IF pin < 8 THEN pin ELSE BitAnd(pin, 7)
        w1 == shiftCheck(w0, noshifts)
        data == IF direction = DIR_OUTPUT
                THEN BitOr(old, Pow2(noshifts))
                ELSE BitAndNot(old, Pow2(noshifts))
        w2 == writeRegister(w1, register, data)
    IN  IF ~Ok(w2) THEN w2
        ELSE IF pin < 8 THEN [w2 EXCEPT !.sh.IODIRA = data]
        ELSE [w2 EXCEPT !.sh.IODIRB = data]

\* setDirection with the bank boundary off by one: pin 8 taken for bank A.
setDirection_boundary(w, pin, direction) ==
    LET w0 == assert(assert(assert(w, pin < 16),
                            direction = DIR_INPUT \/ direction = DIR_OUTPUT),
                     w.isInitialized)
        register == IF pin <= 8 THEN MCP23S17_IODIRA ELSE MCP23S17_IODIRB
        old == IF pin <= 8 THEN w0.sh.IODIRA ELSE w0.sh.IODIRB
        noshifts == IF pin <= 8 THEN pin ELSE BitAnd(pin, 7)
        w1 == shiftCheck(w0, noshifts)
        data == IF direction = DIR_INPUT
                THEN BitOr(old, Pow2(noshifts))
                ELSE BitAndNot(old, Pow2(noshifts))
        w2 == writeRegister(w1, register, data)
    IN  IF ~Ok(w2) THEN w2
        ELSE IF pin <= 8 THEN [w2 EXCEPT !.sh.IODIRA = data]
        ELSE [w2 EXCEPT !.sh.IODIRB = data]

\* setDirection(pin, direction)
setDirection(w, pin, direction) ==
    LET w0 == assert(assert(assert(w, pin < 16),
                            direction = DIR_INPUT \/ direction = DIR_OUTPUT),
                     w.isInitialized)
        register == IF pin < 8 THEN MCP23S17_IODIRA ELSE MCP23S17_IODIRB
        old == IF pin < 8 THEN w0.sh.IODIRA ELSE w0.sh.IODIRB
        noshifts == IF pin < 8 THEN pin ELSE BitAnd(pin, 7)
        w1 == shiftCheck(w0, noshifts)
        data == IF direction = DIR_INPUT
                THEN BitOr(old, Pow2(noshifts))
                ELSE BitAndNot(old, Pow2(noshifts))
        w2 == writeRegister(w1, register, data)
    IN  IF ~Ok(w2) THEN w2
        ELSE IF pin < 8 THEN [w2 EXCEPT !.sh.IODIRA = data]
        ELSE [w2 EXCEPT !.sh.IODIRB = data]

\* The level digitalRead returns for bit n of the byte read.
levelOf(w, byte, n) ==
    LET w1 == shiftCheck(w, n)
    IN  IF ~Ok(w1) THEN w1
        ELSE [w1 EXCEPT !.ret = IF BitAnd(byte, Pow2(n)) # 0
                                 THEN LEVEL_HIGH ELSE LEVEL_LOW]

\* digitalRead with the mask of bank B forgotten: bit `pin` of the byte tested.
digitalRead_unmasked(w, pin) ==
    LET w0 == assert(assert(w, w.isInitialized), pin < 16)
    IN  IF pin < 8
        THEN LET w1 == readRegister(w0, MCP23S17_GPIOA)
                 w2 == IF Ok(w1) THEN [w1 EXCEPT !.sh.GPIOA = w1.ret] ELSE w1
             IN  levelOf(w2, w2.sh.GPIOA, pin)
        ELSE LET w1 == readRegister(w0, MCP23S17_GPIOB)
                 w2 == IF Ok(w1) THEN [w1 EXCEPT !.sh.GPIOB = w1.ret] ELSE w1
             IN  levelOf(w2, w2.sh.GPIOB, pin)

\* digitalRead(pin); the level is left in ret.
digitalRead(w, pin) ==
    LET w0 == assert(assert(w, w.isInitialized), pin < 16)
    IN  IF pin < 8
        THEN LET w1 == readRegister(w0, MCP23S17_GPIOA)
                 w2 == IF Ok(w1) THEN [w1 EXCEPT !.sh.GPIOA = w1.ret] ELSE w1
             IN  levelOf(w2, w2.sh.GPIOA, pin)
        ELSE LET w1 == readRegister(w0, MCP23S17_GPIOB)
                 w2 == IF Ok(w1) THEN [w1 EXCEPT !.sh.GPIOB = w1.ret] ELSE w1
             IN  levelOf(w2, w2.sh.GPIOB, BitAnd(pin, 7))

\* digitalWrite with the complement forgotten in the LOW branch:
\* data &= (1 << noshifts).
digitalWrite_nocomplement(w, pin, level) ==
    LET w0 == assert(assert(assert(w, w.isInitialized), pin < 16),
                     level = LEVEL_HIGH \/ level = LEVEL_LOW)
        register == IF pin < 8 THEN MCP23S17_GPIOA ELSE MCP23S17_GPIOB
        old == IF pin < 8 THEN w0.sh.GPIOA ELSE w0.sh.GPIOB
        noshifts == IF pin < 8 THEN pin ELSE BitAnd(pin, 7)
        w1 == shiftCheck(w0, noshifts)
        data == IF level = LEVEL_HIGH
                THEN BitOr(old, Pow2(noshifts))
                ELSE BitAnd(old, Pow2(noshifts))
        w2 == writeRegister(w1, register, data)
    IN  IF ~Ok(w2) THEN w2
        ELSE IF pin < 8 THEN [w2 EXCEPT !.sh.GPIOA = data]
        ELSE [w2 EXCEPT !.sh.GPIOB = data]

\* digitalWrite(pin, level)
digitalWrite(w, pin, level) ==
    LET w0 == assert(assert(assert(w, w.isInitialized), pin < 16),
                     level = LEVEL_HIGH \/ level = LEVEL_LOW)
        register == IF pin < 8 THEN MCP23S17_GPIOA ELSE MCP23S17_GPIOB
        old == IF pin < 8 THEN w0.sh.GPIOA ELSE w0.sh.GPIOB
        noshifts == IF pin < 8 THEN pin ELSE BitAnd(pin, 7)
        w1 == shiftCheck(w0, noshifts)
        data == IF level = LEVEL_HIGH
                THEN BitOr(old, Pow2(noshifts))
                ELSE BitAndNot(old, Pow2(noshifts))
        w2 == writeRegister(w1, register, data)
    IN  IF ~Ok(w2) THEN w2
        ELSE IF pin < 8 THEN [w2 EXCEPT !.sh.GPIOA = data]
        ELSE [w2 EXCEPT !.sh.GPIOB = data]

\* writeGPIO with the shadows assigned before anything is checked.
writeGPIO_unchecked(w, data) ==
    writeRegisterWord([w EXCEPT !.sh.GPIOA = BitAnd(data, 255),
                                !.sh.GPIOB = ShiftRight(data, 8)],
                      MCP23S17_GPIOA, data)

\* writeGPIO(data)
writeGPIO(w, data) ==
    LET w0 == assert(w, w.isInitialized)
        w1 == IF Ok(w0)
              THEN [w0 EXCEPT !.sh.GPIOA = BitAnd(data, 255),
                              !.sh.GPIOB = ShiftRight(data, 8)]
              ELSE w0
    IN  writeRegisterWord(w1, MCP23S17_GPIOA, data)

\* readGPIO(); the word is left in ret.
readGPIO(w) ==
    LET w0 == assert(w, w.isInitialized)
        w1 == readRegisterWord(w0, MCP23S17_GPIOA)
    IN  IF Ok(w1)
        THEN [w1 EXCEPT !.sh.GPIOA = BitAnd(w1.ret, 255),
                        !.sh.GPIOB = ShiftRight(w1.ret, 8)]
        ELSE w1

\* _setupGPIO()
setupGPIO(w) ==
    IF w.pin_reset # -1 THEN [w EXCEPT !.resetLine = "high"] ELSE w

\* self._spi.open(self.bus, self.ce): acquired tells whether the transport
\* grants the bus, mode is the clock mode the device then reports.
spiOpen(w, acquired, mode) ==
    IF ~Ok(w) THEN w
    ELSE IF "bus" \notin w.attrs \/ "ce" \notin w.attrs THEN Raise(w, "attribute")
    ELSE IF ~acquired THEN Raise(w, "transport")
    ELSE [w EXCEPT !.spi = [open |-> TRUE, mode |-> mode]]

\* for index in range(0, 15): setDirection(index, DIR_INPUT);
\*                            setPullupMode(index, PULLUP_ENABLED)
RECURSIVE setDefaults(_, _)
setDefaults(w, index) ==
    IF index >= 15 THEN w
    ELSE LET w1 == setDirection(w, index, DIR_INPUT)
             w2 == setPullupMode(w1, index, PULLUP_ENABLED)
         IN  IF Ok(w2) THEN setDefaults(w2, index + 1) ELSE w2

\* open() with the flag set first, before the bus is acquired.
open_flagfirst(w, acquired, mode) ==
    LET w0 == [w EXCEPT !.isInitialized = TRUE]
        w1 == spiOpen(setupGPIO(w0), acquired, mode)
        w2 == writeRegister(w1, MCP23S17_IOCON, IOCON_INIT)
    IN  IF Ok(w2) THEN setDefaults(w2, 0) ELSE w2

\* open()
open(w, acquired, mode) ==
    LET w1 == spiOpen(setupGPIO(w), acquired, mode)
        w2 == writeRegister(w1, MCP23S17_IOCON, IOCON_INIT)
        w3 == IF Ok(w2) THEN setDefaults(w2, 0) ELSE w2
    IN  IF Ok(w3) THEN [w3 EXCEPT !.isInitialized = TRUE] ELSE w3

\* close()
close(w) ==
    [w EXCEPT !.spi = [open |-> FALSE, mode |-> 0], !.isInitialized = FALSE]

\* ---------------------------------------------------------------- actions
NoResp == <<Mirror, Mirror>>

\* The transfers of a call that the transport may fail, for a call that makes
\* n register accesses: none (0) or one of the first MaxFail, the dummy
\* transfer of _setSpiMode counted.
FailPoints(n) ==
    LET t == n + (IF spi.mode # SPIMODE THEN 1 ELSE 0)
    IN  0..(IF t < MaxFail THEN t ELSE MaxFail)

\* Argument pairs <<pin, enumerator>> of the per-pin setters: every pin with
\* both enumerators, and the stray enumerator with one pin.
PinArgs == {a \in Pins \X Enums : a[2] \in {0, 1} \/ a[1] = 7}

\* The state after the constructor: __init__(bus, pin_cs, pin_reset, deviceID).
Constructed(id, reset) ==
    /\ deviceID = id /\ pin_reset = reset
    /\ isInitialized = FALSE
    /\ GPIOA = 0 /\ GPIOB = 0
    /\ IODIRA = 0 /\ IODIRB = 0
    /\ GPPUA = 0 /\ GPPUB = 0
    /\ attrs = {}
    /\ spi = [open |-> FALSE, mode |-> 0]
    /\ cs = "high"
    /\ resetLine = "unset"
    /\ lastW = [r \in Regs |-> None]
    /\ lastRW = [r \in Regs |-> None]
    /\ call = [op |-> "init", pin |-> None, arg |-> None, fault |-> "none",
               ret |-> None, frames |-> <<>>, nx |-> 0, resp |-> NoResp,
               pre |-> [isInitialized |-> FALSE, sh |-> Shadow]]
    /\ nops = 0
    /\ thr = [t \in Threads |-> [pc |-> "idle", pin |-> None, level |-> None,
                                 data |-> None, fault |-> "none"]]
    /\ overlap = FALSE
    /\ commanded = [A |-> 0, B |-> 0]

Init == \E c \in Ctors : Constructed(c[1], c[2])

\* n with bit k forced to 0, by arithmetic on the binary digits.
Without(n, k) == n - ((n \div Pow2(k)) % 2) * Pow2(k)

\* The levels asked for so far, once the call op(pin, arg) has ended in world
\* w: a completed digitalWrite asks for one pin's level, a completed
\* writeGPIO for the sixteen levels of its word.
Commanded(w, op, pin, arg) ==
    IF ~Ok(w) THEN commanded
    ELSE IF op = "digitalWrite"
    THEN LET k == pin % 8
             bank == IF pin < 8 THEN "A" ELSE "B"
         IN  [commanded EXCEPT ![bank] = Without(@, k) + arg * Pow2(k)]
    ELSE IF op = "writeGPIO"
    THEN [A |-> arg % 256, B |-> (arg \div 256) % 256]
    ELSE commanded

\* The call op(pin, arg) ended in world w: the instance, the transport and
\* the lines take the values the call left, and the call is recorded with
\* the flag and the shadows it started from.
Commit(w, op, pin, arg) ==
    /\ isInitialized' = w.isInitialized
    /\ GPIOA' = w.sh.GPIOA /\ GPIOB' = w.sh.GPIOB
    /\ IODIRA' = w.sh.IODIRA /\ IODIRB' = w.sh.IODIRB
    /\ GPPUA' = w.sh.GPPUA /\ GPPUB' = w.sh.GPPUB
    /\ spi' = w.spi
    /\ cs' = w.cs
    /\ resetLine' = w.resetLine
    /\ lastW' = w.lastW
    /\ lastRW' = w.lastRW
    /\ call' = [op |-> op, pin |-> pin, arg |-> arg, fault |-> w.fault,
                ret |-> IF Ok(w) THEN w.ret ELSE None,
                frames |-> w.frames, nx |-> w.nx, resp |-> w.resp,
                pre |-> [isInitialized |-> isInitialized, sh |-> Shadow]]
    /\ nops' = nops + 1
    /\ commanded' = Commanded(w, op, pin, arg)
    /\ UNCHANGED <<deviceID, pin_reset, attrs, thr, overlap>>

Open ==
    /\ nops < MaxOps
    /\ \E acquired \in BOOLEAN, mode \in SpiModes, failAt \in FailPoints(31) :
          \* a refused bus leaves nothing else to choose
          /\ acquired \/ (mode = SPIMODE /\ failAt = 0)
          /\ Commit(open(World(failAt, NoResp), acquired, mode), "open",
                 None, IF acquired THEN 1 ELSE 0)

Close ==
    /\ nops < MaxOps
    /\ Commit(close(World(0, NoResp)), "close", None, None)

SetPullupMode ==
    /\ nops < MaxOps
    /\ \E a \in PinArgs, failAt \in FailPoints(1) :
          Commit(setPullupMode(World(failAt, NoResp), a[1], a[2]),
                 "setPullupMode", a[1], a[2])

SetDirection ==
    /\ nops < MaxOps
    /\ \E a \in PinArgs, failAt \in FailPoints(1) :
          Commit(setDirection(World(failAt, NoResp), a[1], a[2]),
                 "setDirection", a[1], a[2])

DigitalRead ==
    /\ nops < MaxOps
    /\ \E pin \in Pins, r \in ReadVals, failAt \in FailPoints(1) :
          Commit(digitalRead(World(failAt, <<r, Mirror>>), pin),
                 "digitalRead", pin, None)

DigitalWrite ==
    /\ nops < MaxOps
    /\ \E a \in PinArgs, failAt \in FailPoints(1) :
          Commit(digitalWrite(World(failAt, NoResp), a[1], a[2]),
                 "digitalWrite", a[1], a[2])

WriteGPIO ==
    /\ nops < MaxOps
    /\ \E data \in Words, failAt \in FailPoints(2) :
          Commit(writeGPIO(World(failAt, NoResp), data), "writeGPIO", None, data)

ReadGPIO ==
    /\ nops < MaxOps
    /\ \E r1 \in ReadVals, r2 \in ReadVals, failAt \in FailPoints(2) :
          Commit(readGPIO(World(failAt, <<r1, r2>>)), "readGPIO", None, None)

Next ==
    \/ Open
    \/ Close
    \/ SetPullupMode
    \/ SetDirection
    \/ DigitalRead
    \/ DigitalWrite
    \/ WriteGPIO
    \/ ReadGPIO

\* The class driven through its own methods only.
Spec == Init /\ [][Next]_vars

\* The fixture of the test scenarios, which run against a mocked transport:
\* right after construction the test replaces self._spi by its mock (open,
\* reporting clock mode `mode`), assigns the attributes of Unassigned, and
\* either leaves isInitialized to open() or sets it itself.
Fixture ==
    /\ call.op = "init"
    /\ \E mode \in SpiModes, flag \in BOOLEAN :
          /\ spi' = [open |-> TRUE, mode |-> mode]
          /\ isInitialized' = flag
          /\ call' = [call EXCEPT !.op = "fixture",
                                  !.pre.isInitialized = flag]
    /\ attrs' = Unassigned
    /\ UNCHANGED <<deviceID, pin_reset, GPIOA, GPIOB, IODIRA, IODIRB, GPPUA,
                   GPPUB, cs, resetLine, lastW, lastRW, nops, thr, overlap,
                   commanded>>

NextFixture == Fixture \/ Next

\* The class driven by a test: the fixture, then the class's methods.
SpecFixture == Init /\ [][NextFixture]_vars

\* The same test run for a chip strapped to each of the hardware addresses.
InitAddr == \E a \in Addresses : Constructed(a, -1)

SpecAddr == InitAddr /\ [][NextFixture]_vars

\* ---------------------------------------------------------------- threads
\* digitalWrite called from two threads on one instance.  The interpreter
\* may switch threads between any two statements, so a call is three steps:
\* the checks and the byte computed from the shadow, the register write, the
\* assignment of the shadow.

\* digitalWrite with the byte built from 0 instead of the shadow.
portByte_fresh(sh, pin, level) ==
    LET noshifts == IF pin < 8 THEN pin ELSE BitAnd(pin, 7)
    IN  IF level = LEVEL_HIGH
        THEN BitOr(0, Pow2(noshifts))
        ELSE BitAndNot(0, Pow2(noshifts))

\* The byte digitalWrite(pin, level) computes from the shadows sh.
portByte(sh, pin, level) ==
    LET old == IF pin < 8 THEN sh.GPIOA ELSE sh.GPIOB
        noshifts == IF pin < 8 THEN pin ELSE BitAnd(pin, 7)
    IN  IF level = LEVEL_HIGH
        THEN BitOr(old, Pow2(noshifts))
        ELSE BitAndNot(old, Pow2(noshifts))

\* Thread t enters digitalWrite(pin, level): the asserts, then data.
BeginWrite(t) ==
    /\ thr[t].pc = "idle"
    /\ \E pin \in ThreadPins(t), level \in {LEVEL_LOW, LEVEL_HIGH} :
          thr' = [thr EXCEPT ![t] =
                    IF isInitialized
                    THEN [pc |-> "write", pin |-> pin, level |-> level,
                          data |-> portByte(Shadow, pin, level), fault |-> "none"]
                    ELSE [pc |-> "done", pin |-> pin, level |-> level,
                          data |-> None, fault |-> "assert"]]
    /\ overlap' = (overlap \/ \E u \in Threads \ {t} :
                                  thr[u].pc \in {"write", "store"})
    /\ UNCHANGED <<deviceID, pin_reset, isInitialized, GPIOA, GPIOB, IODIRA,
                   IODIRB, GPPUA, GPPUB, attrs, spi, cs, resetLine, lastW,
                   lastRW, call, nops, commanded>>

\* Thread t runs self._writeRegister(register, data).
BusWrite(t) ==
    /\ thr[t].pc = "write"
    /\ \E failAt \in FailPoints(1) :
          LET register == IF thr[t].pin < 8 THEN MCP23S17_GPIOA
                          ELSE MCP23S17_GPIOB
              w == writeRegister(World(failAt, NoResp), register, thr[t].data)
          IN  /\ spi' = w.spi /\ cs' = w.cs
              /\ lastW' = w.lastW /\ lastRW' = w.lastRW
              /\ thr' = [thr EXCEPT ![t].pc = IF Ok(w) THEN "store" ELSE "done",
                                    ![t].fault = w.fault]
    /\ UNCHANGED <<deviceID, pin_reset, isInitialized, GPIOA, GPIOB, IODIRA,
                   IODIRB, GPPUA, GPPUB, attrs, resetLine, call, nops, overlap,
                   commanded>>

\* Thread t assigns the shadow of the pin's bank and returns.
StoreShadow(t) ==
    /\ thr[t].pc = "store"
    /\ IF thr[t].pin < 8
       THEN GPIOA' = thr[t].data /\ UNCHANGED GPIOB
       ELSE GPIOB' = thr[t].data /\ UNCHANGED GPIOA
    /\ thr' = [thr EXCEPT ![t].pc = "done"]
    /\ UNCHANGED <<deviceID, pin_reset, isInitialized, IODIRA, IODIRB, GPPUA,
                   GPPUB, attrs, spi, cs, resetLine, lastW, lastRW, call, nops,
                   overlap, commanded>>

NextThreads ==
    \/ Fixture
    \/ \E t \in Threads : BeginWrite(t)
    \/ \E t \in Threads : BusWrite(t)
    \/ \E t \in Threads : StoreShadow(t)

\* Two threads calling digitalWrite on the instance a test has set up.
SpecThreads == Init /\ [][NextThreads]_vars

\* ================================================================ claims
PinOps == {"setPullupMode", "setDirection", "digitalRead", "digitalWrite",
           "writeGPIO", "readGPIO"}
Writers == {"setPullupMode", "setDirection", "digitalWrite", "writeGPIO"}

\* The frames of the last call that are register writes / register reads.
IsWrite(f) == Len(f) = 3 /\ f[1] = MCP23S17_CMD_WRITE + 2 * deviceID
IsRead(f) == Len(f) = 3 /\ f[1] = MCP23S17_CMD_READ + 2 * deviceID
WriteFrames == SelectSeq(call.frames, IsWrite)
Wrote(register) == \E i \in 1..Len(WriteFrames) : WriteFrames[i][2] = register

\* C1: a pin or port operation called while the instance is not initialized
\* (never opened, or closed since) raises the precondition fault, attempts no
\* bus transfer and leaves the six shadows as they were.
C1_UninitializedFaults ==
    (call.op \in PinOps /\ ~call.pre.isInitialized)
        => /\ call.fault = "assert"
           /\ call.nx = 0
           /\ Shadow = call.pre.sh

\* C1 witness: writeGPIO on an instance whose transport was open and has been
\* closed by close().
C1_Witness ==
    /\ call.op = "writeGPIO"
    /\ ~call.pre.isInitialized
    /\ attrs = Unassigned /\ ~spi.open
    /\ call.fault = "assert"

\* C2: open() on a fresh instance whose transport and lines work ends without
\* a fault and with isInitialized set.
C2_OpenCompletes ==
    (call.op = "open" /\ nops = 1 /\ call.fault # "transport")
        => (call.fault = "none" /\ isInitialized)

\* C3: after open() has returned every pin is an input with pull-up: the four
\* direction and pull-up shadows are 0xFF and 0xFF is the byte last written
\* to registers 0x00, 0x01, 0x0C and 0x0D.
C3_AllInputPullup ==
    (call.op = "open" /\ call.fault = "none")
        => /\ IODIRA = 255 /\ IODIRB = 255 /\ GPPUA = 255 /\ GPPUB = 255
           /\ lastW[MCP23S17_IODIRA] = 255 /\ lastW[MCP23S17_IODIRB] = 255
           /\ lastW[MCP23S17_GPPUA] = 255 /\ lastW[MCP23S17_GPPUB] = 255

\* C4: on an initialized driver each shadow equals the byte last written to
\* or read from its register, for every register accessed so far.
C4_ShadowsTrackRegisters ==
    isInitialized =>
        /\ lastRW[MCP23S17_IODIRA] \in {None, IODIRA}
        /\ lastRW[MCP23S17_IODIRB] \in {None, IODIRB}
        /\ lastRW[MCP23S17_GPPUA] \in {None, GPPUA}
        /\ lastRW[MCP23S17_GPPUB] \in {None, GPPUB}
        /\ lastRW[MCP23S17_GPIOA] \in {None, GPIOA}
        /\ lastRW[MCP23S17_GPIOB] \in {None, GPIOB}

\* C5: after setDirection(p, d) has returned, p is in 0..15 and the byte held
\* by the direction register of p's bank (0x00 for p < 8, else 0x01) has bit
\* p mod 8 equal to 1 for an input and 0 for an output.
C5_DirectionBit ==
    (call.op = "setDirection" /\ call.fault = "none")
        => /\ call.pin \in 0..15
           /\ call.pre.isInitialized
           /\ LET register == IF call.pin < 8 THEN 0 ELSE 1
              IN  (lastW[register] \div Pow2(call.pin % 8)) % 2
                      = (IF call.arg = DIR_INPUT THEN 1 ELSE 0)

\* C5 witness: pin 10, an input before the call, has been made an output.
C5_Witness ==
    /\ call.op = "setDirection" /\ call.fault = "none"
    /\ call.pin = 10 /\ call.arg = DIR_OUTPUT
    /\ call.pre.sh.IODIRB = 4
    /\ lastW[MCP23S17_IODIRB] = 0

C7_WriteThenRead ==
    [][ ( /\ call.op = "writeGPIO" /\ call.fault = "none"
          /\ call'.op = "readGPIO" /\ call'.fault = "none"
          /\ call'.resp = <<Mirror, Mirror>>
          /\ nops' = nops + 1 )
        => /\ call.arg \in 0..65535
           /\ call'.ret = call.arg
           /\ GPIOA' = call.arg % 256 /\ GPIOB' = call.arg \div 256
           /\ LET n == Len(call.frames)
                  m == Len(call'.frames)
              IN  /\ n >= 2 /\ m >= 2
                  /\ call.frames[n - 1][2] = 18
                  /\ call.frames[n - 1][3] = call.arg % 256
                  /\ call.frames[n][2] = 19
                  /\ call.frames[n][3] = call.arg \div 256
                  /\ IsWrite(call.frames[n - 1]) /\ IsWrite(call.frames[n])
                  /\ call'.frames[m - 1][2] = 18 /\ call'.frames[m][2] = 19
                  /\ IsRead(call'.frames[m - 1]) /\ IsRead(call'.frames[m]) ]_vars

\* C7 witness: readGPIO returned 0x84C5 from the mirror after writeGPIO(0x84C5).
C7_Witness ==
    /\ call.op = "readGPIO" /\ call.fault = "none"
    /\ call.resp = <<Mirror, Mirror>>
    /\ lastW[MCP23S17_GPIOA] = 197 /\ lastW[MCP23S17_GPIOB] = 132
    /\ call.ret = 33989

\* C8: when the transport fails during a register write of setPullupMode,
\* setDirection, digitalWrite or writeGPIO, nothing is retried and every
\* shadow whose register was not written by the call keeps its value.
C8_FailedWriteKeepsShadow ==
    (call.op \in Writers /\ call.fault = "transport")
        => /\ call.nx = Len(call.frames) + 1
           /\ (GPIOA # call.pre.sh.GPIOA => Wrote(MCP23S17_GPIOA))
           /\ (GPIOB # call.pre.sh.GPIOB => Wrote(MCP23S17_GPIOB))
           /\ (IODIRA # call.pre.sh.IODIRA => Wrote(MCP23S17_IODIRA))
           /\ (IODIRB # call.pre.sh.IODIRB => Wrote(MCP23S17_IODIRB))
           /\ (GPPUA # call.pre.sh.GPPUA => Wrote(MCP23S17_GPPUA))
           /\ (GPPUB # call.pre.sh.GPPUB => Wrote(MCP23S17_GPPUB))

\* C9: on an initialized driver a per-pin operation given a pin outside 0..15
\* or an enumerator outside its two values faults at once: no bus transfer is
\* attempted and no shadow changes.
C9_BadArgumentFaultsEarly ==
    ( /\ call.op \in {"setPullupMode", "setDirection", "digitalRead", "digitalWrite"}
      /\ call.pre.isInitialized
      /\ \/ call.pin \notin 0..15
         \/ (call.op # "digitalRead" /\ call.arg \notin {0, 1}) )
        => /\ call.fault \in {"assert", "value"}
           /\ call.nx = 0
           /\ Shadow = call.pre.sh

\* C10: open() issues exactly 33 register writes: 0x28 to register 0x0A, then
\* for each pin 0..15 a direction write followed by a pull-up write, and the
\* shadows end all-input and all-pull-up.
C10_Open33Writes ==
    (call.op = "open" /\ call.fault = "none")
        => /\ Len(WriteFrames) = 33
           /\ WriteFrames[1][2] = MCP23S17_IOCON /\ WriteFrames[1][3] = 40
           /\ \A i \in 2..Len(WriteFrames) :
                 LET pin == (i - 2) \div 2
                 IN  WriteFrames[i][2] = (IF i % 2 = 0
                                          THEN (IF pin < 8 THEN 0 ELSE 1)
                                          ELSE (IF pin < 8 THEN 12 ELSE 13))
           /\ IODIRA = 255 /\ IODIRB = 255 /\ GPPUA = 255 /\ GPPUB = 255

\* C11: setPullupMode(p, PULLUP_ENABLED) called twice in a row issues the
\* register write both times, with the same frame (the second call is not
\* suppressed), and the second call leaves every shadow as the first left it.
C11_RepeatedPullup ==
    [][ ( /\ call.op = "setPullupMode" /\ call.fault = "none"
          /\ call.arg = PULLUP_ENABLED
          /\ call'.op = "setPullupMode" /\ call'.fault = "none"
          /\ call'.arg = PULLUP_ENABLED /\ call'.pin = call.pin
          /\ nops' = nops + 1 )
        => /\ Len(WriteFrames) = 1
           /\ SelectSeq(call'.frames, IsWrite) = WriteFrames
           /\ Shadow' = Shadow ]_vars

\* C11 witness: the pull-up of pin 10 enabled a second time (bit 2 of bank B
\* was already set by the first call) and the write is on the bus again.
C11_Witness ==
    /\ call.op = "setPullupMode" /\ call.fault = "none"
    /\ call.pin = 10 /\ call.arg = PULLUP_ENABLED
    /\ call.pre.sh.GPPUB = 4 /\ GPPUB = 4
    /\ WriteFrames = <<<<MCP23S17_CMD_WRITE + 2 * deviceID, MCP23S17_GPPUB, 4>>>>

\* C12: for every device address a in 0..7 the first byte of a write frame is
\* 0x40 | (a << 1) and that of a read frame 0x41 | (a << 1); a write frame is
\* [command, register, data], a read frame [command, register, 0x00], and a
\* read returns the byte at index 2 of the response.
C12_CommandBytes ==
    /\ deviceID \in Addresses
    /\ \A i \in 1..Len(call.frames) :
          LET f == call.frames[i]
          IN  Len(f) = 3 =>
                 /\ f[2] \in Regs
                 /\ IF call.op \in {"digitalRead", "readGPIO"}
                    THEN f[1] = 65 + 2 * deviceID /\ f[3] = 0
                    ELSE f[1] = 64 + 2 * deviceID /\ f[3] \in 0..255
    /\ (call.op = "digitalRead" /\ call.fault = "none" /\ call.resp[1] # Mirror)
          => (IF call.pin < 8 THEN GPIOA ELSE GPIOB) = call.resp[1]
    /\ ( /\ call.op = "readGPIO" /\ call.fault = "none"
         /\ call.resp[1] # Mirror /\ call.resp[2] # Mirror )
          => call.ret = 256 * call.resp[2] + call.resp[1]

\* C12 witness: the chip at address 5 has answered a read of GPIOB (frame
\* 0x4B 0x13 0x00) with 0xA5 right after a write of GPIOB (frame 0x4A 0x13 ..).
C12_Witness ==
    /\ deviceID = 5
    /\ call.op = "digitalRead" /\ call.fault = "none" /\ call.pin = 10
    /\ call.frames = <<<<75, 19, 0>>>>
    /\ call.resp[1] = 165 /\ GPIOB = 165 /\ call.ret = LEVEL_HIGH
    /\ lastW[MCP23S17_GPIOB] = 4

\* The 3-byte transfers among the frames of a call.
IsAccess(f) == Len(f) = 3

\* C13: a completed digitalRead(pin) has issued exactly one register read, of
\* the port register of the pin's bank (0x12 for pins 0..7, 0x13 for 8..15),
\* has stored the byte returned in that bank's port shadow and returns HIGH
\* exactly when bit pin mod 8 of that byte is set; read from a transport that
\* mirrors writes right after digitalWrite(pin, HIGH), it returns HIGH.
C13_ReadFromBus ==
    [][ ( /\ nops' = nops + 1
          /\ call'.op = "digitalRead" /\ call'.fault = "none" )
        => LET pin == call'.pin
               register == IF pin < 8 THEN 18 ELSE 19
               byte == lastRW'[register]
               accesses == SelectSeq(call'.frames, IsAccess)
           IN  /\ pin \in 0..15
               /\ accesses = <<<<65 + 2 * deviceID, register, 0>>>>
               /\ call'.resp[1] # Mirror => byte = call'.resp[1]
               /\ (IF pin < 8 THEN GPIOA' ELSE GPIOB') = byte
               /\ call'.ret = (IF (byte \div Pow2(pin % 8)) % 2 = 1
                               THEN LEVEL_HIGH ELSE LEVEL_LOW)
               /\ ( /\ call.op = "digitalWrite" /\ call.fault = "none"
                    /\ call.pin = pin /\ call.arg = LEVEL_HIGH
                    /\ call'.resp[1] = Mirror )
                     => call'.ret = LEVEL_HIGH ]_vars

\* C13 witness: digitalRead(10) has returned HIGH from the mirror right after
\* digitalWrite(10, HIGH) had written 0x04 to GPIOB.
C13_Witness ==
    /\ call.op = "digitalRead" /\ call.fault = "none" /\ call.pin = 10
    /\ call.resp[1] = Mirror
    /\ call.pre.sh.GPIOB = 4 /\ lastW[MCP23S17_GPIOB] = 4
    /\ SelectSeq(call.frames, IsAccess) = <<<<65 + 2 * deviceID, 19, 0>>>>
    /\ GPIOB = 4 /\ call.ret = LEVEL_HIGH

\* Both threads' calls have returned without a fault.
BothReturned == \A t \in Threads : thr[t].pc = "done" /\ thr[t].fault = "none"

\* Bit pin mod 8 of byte equals the level thread t commanded.
Holds(byte, t) == (byte \div Pow2(thr[t].pin % 8)) % 2 = thr[t].level

\* The level thread t commanded is in the port shadow of its pin's bank, and
\* in the byte last written to that bank's port register.
InShadow(t) == Holds(IF thr[t].pin < 8 THEN GPIOA ELSE GPIOB, t)
InRegister(t) ==
    Holds(lastW[IF thr[t].pin < 8 THEN MCP23S17_GPIOA ELSE MCP23S17_GPIOB], t)

\* C14: the read-modify-write of a shadow is not atomic.  When the digitalWrite
\* calls of two threads on different pins are serialized, both bit changes
\* are in the final shadow and in the last byte written; when the calls
\* overlap, a state is reachable (C14_LostUpdate) where one of them is in
\* neither.
C14_SerializedKeepsBoth ==
    (BothReturned /\ ~overlap)
        => \A t \in Threads : InShadow(t) /\ InRegister(t)

\* C14 witness: both calls have returned, on pins 8 and 10 of bank B, both
\* commanding HIGH, and the bit of thread 1 is missing from the shadow and
\* from the last byte written to GPIOB.
C14_LostUpdate ==
    /\ BothReturned /\ overlap
    /\ thr[1].pin = 8 /\ thr[2].pin = 10
    /\ thr[1].level = LEVEL_HIGH /\ thr[2].level = LEVEL_HIGH
    /\ ~InShadow(1) /\ ~InRegister(1)
    /\ InShadow(2) /\ InRegister(2)

\* C15: when the transport refuses the bus inside open(), open() ends with
\* the transport's fault, has attempted no transfer (no register write), and
\* leaves isInitialized as it was; on an instance not initialized before, the
\* flag is still false and the next pin or port operation raises the
\* precondition fault without a transfer.
C15_AcquisitionFails ==
    [][ /\ ( /\ nops' = nops + 1
             /\ call'.op = "open" /\ call'.arg = 0
             /\ {"bus", "ce"} \subseteq attrs )
           => /\ call'.fault = "transport"
              /\ call'.nx = 0 /\ call'.frames = <<>>
              /\ isInitialized' = isInitialized
              /\ lastW' = lastW
        /\ ( /\ call.op = "open" /\ call.arg = 0 /\ call.fault = "transport"
             /\ ~call.pre.isInitialized
             /\ nops' = nops + 1 /\ call'.op \in PinOps )
           => /\ ~isInitialized
              /\ call'.fault = "assert" /\ call'.nx = 0 ]_vars

\* C15 witness: open() on an instance never initialized has been refused the
\* bus; the flag is false and nothing was written.
C15_Witness ==
    /\ call.op = "open" /\ call.arg = 0
    /\ call.fault = "transport" /\ call.nx = 0
    /\ ~call.pre.isInitialized /\ ~isInitialized
    /\ \A r \in Regs : lastW[r] = None

\* C16: the byte a completed digitalWrite(p, level) writes to the port register
\* has, at every bit other than p mod 8, the level last asked for that pin by
\* a digitalWrite or writeGPIO (0 if never asked), whatever a digitalRead or
\* readGPIO in between has returned.
C16_SiblingsAsCommanded ==
    [][ ( /\ nops' = nops + 1
          /\ call'.op = "digitalWrite" /\ call'.fault = "none" )
        => LET pin == call'.pin
               byte == lastW'[IF pin < 8 THEN MCP23S17_GPIOA ELSE MCP23S17_GPIOB]
               asked == IF pin < 8 THEN commanded.A ELSE commanded.B
           IN  Without(byte, pin % 8) = Without(asked, pin % 8) ]_vars

\* The register and the shadow field of a per-pin setter's family for a pin.
FamilyRegister(op, pin) ==
    IF op = "setDirection" THEN (IF pin < 8 THEN 0 ELSE 1)
    ELSE IF op = "setPullupMode" THEN (IF pin < 8 THEN 12 ELSE 13)
    ELSE (IF pin < 8 THEN 18 ELSE 19)
FamilyShadow(op, pin) ==
    IF op = "setDirection" THEN (IF pin < 8 THEN "IODIRA" ELSE "IODIRB")
    ELSE IF op = "setPullupMode" THEN (IF pin < 8 THEN "GPPUA" ELSE "GPPUB")
    ELSE (IF pin < 8 THEN "GPIOA" ELSE "GPIOB")

\* C17: a completed setDirection, setPullupMode or digitalWrite on pin p has p
\* in 0..15, has issued exactly one register transfer, a write to the register
\* of its family in p's bank (0x00/0x01, 0x0C/0x0D, 0x12/0x13; bank A iff
\* p < 8), has changed at most bit p mod 8 of that register's shadow, and has
\* left the other five shadows, deviceID and isInitialized as they were.
C17_OneWriteOneBit ==
    [][ ( /\ nops' = nops + 1
          /\ call'.op \in {"setDirection", "setPullupMode", "digitalWrite"}
          /\ call'.fault = "none" )
        => LET pin == call'.pin
               own == FamilyShadow(call'.op, pin)
               accesses == SelectSeq(call'.frames, IsAccess)
           IN  /\ pin \in 0..15
               /\ Len(accesses) = 1
               /\ accesses[1][1] = 64 + 2 * deviceID
               /\ accesses[1][2] = FamilyRegister(call'.op, pin)
               /\ accesses[1][3] = Shadow'[own]
               /\ Without(Shadow'[own], pin % 8) = Without(Shadow[own], pin % 8)
               /\ \A f \in DOMAIN Shadow \ {own} : Shadow'[f] = Shadow[f]
               /\ deviceID' = deviceID
               /\ isInitialized' = isInitialized ]_vars

\* C17 witness: setPullupMode(8, PULLUP_DISABLED) on a driver whose pull-up
\* shadow of bank B was 0x7F has written 0x7E to register 0x0D and nothing
\* else; the other shadows are as open() left them.
C17_Witness ==
    /\ call.op = "setPullupMode" /\ call.fault = "none"
    /\ call.pin = 8 /\ call.arg = PULLUP_DISABLED
    /\ call.pre.sh.GPPUB = 127 /\ GPPUB = 126
    /\ SelectSeq(call.frames, IsAccess) = <<<<64 + 2 * deviceID, 13, 126>>>>
    /\ GPPUA = 255 /\ IODIRA = 255 /\ IODIRB = 127

\* The one-byte dummy transfers among the frames of a call.
IsDummy(f) == Len(f) = 1

\* C18: a register access sets the clock mode and sends the one-byte dummy
\* transfer only when the transport's mode differs from the configured one.
\* With the mode matching, a call leaves the transport's mode alone and sends
\* no dummy, and a completed single-access call consists of exactly one
\* 3-byte transfer; with the mode differing, a completed call starts with the
\* one dummy and leaves the mode matching; in the frames of any call only the
\* first can be a dummy.
C18_DummyOnlyOnModeChange ==
    [][ ( nops' = nops + 1 /\ call'.op # "close" )
        => LET frames == call'.frames
               single == {"setDirection", "setPullupMode", "digitalRead",
                          "digitalWrite"}
           IN  /\ \A i \in 1..Len(frames) : IsDummy(frames[i]) => i = 1
               /\ call'.nx > 0 => spi'.mode = SPIMODE
               /\ call'.op # "open" =>
                     IF spi.mode = SPIMODE
                     THEN /\ spi' = spi
                          /\ SelectSeq(frames, IsDummy) = <<>>
                          /\ (call'.op \in single /\ call'.fault = "none")
                                => (call'.nx = 1 /\ Len(frames) = 1
                                    /\ IsAccess(frames[1]))
                     ELSE /\ call'.nx > 0 => spi'.mode = SPIMODE
                          /\ call'.nx = 0 => spi' = spi
                          /\ (call'.op \in PinOps /\ call'.fault = "none")
                                => (frames[1] = <<0>>
                                    /\ call'.nx = Len(frames)
                                    /\ Len(SelectSeq(frames, IsAccess))
                                         = Len(frames) - 1) ]_vars

\* C18 witness: readGPIO on a transport that reported mode 3 has sent the
\* dummy byte and then its two read frames, and the mode now matches.
C18_Witness ==
    /\ call.op = "readGPIO" /\ call.fault = "none"
    /\ Len(call.frames) = 3 /\ call.nx = 3
    /\ call.frames[1] = <<0>>
    /\ IsRead(call.frames[2]) /\ IsRead(call.frames[3])
    /\ spi.mode = SPIMODE

\* C19: after any sequence of public calls each of the six shadows is an
\* integer in 0..255, and so is the data byte of every write frame sent.
C19_ShadowsAreBytes ==
    /\ \A f \in DOMAIN Shadow : Shadow[f] \in 0..255
    /\ \A i \in 1..Len(WriteFrames) : WriteFrames[i][3] \in 0..255

\* C20: in every state between public calls the chip-select line is high,
\* also after a call that ended with a transport failure: the window a
\* register transfer opens by driving the line low is closed by the call
\* that opened it.
C20_ChipSelectIdleHigh ==
    cs = "high"

====
